---- MODULE Spec2Model ----
(***************************************************************************)
(* Model of template_match (src/src/lib.rs): decode two encoded images,    *)
(* resize the needle by `scale`, check that it fits, compute the           *)
(* TM_CCOEFF_NORMED correlation surface, take its global maximum and       *)
(* compare it with `threshold`.                                            *)
(*                                                                         *)
(* Real numbers (threshold, scale) are rationals [num, den] with den > 0.  *)
(* A correlation score is a record [num, den2] standing for the real       *)
(* number num / sqrt(den2), den2 > 0; all comparisons on scores are exact. *)
(* Images are single-channel: IMREAD_COLOR turns a gray image into three   *)
(* equal channels, for which the normalised score is the same.             *)
(* An Option<T> is a sequence: <<>> is None, <<v>> is Some(v).             *)
(***************************************************************************)
EXTENDS Integers, Sequences, FiniteSets, TLC

\* ---------------------------------------------------------------- bounds
MaxHaystackW == 3
MaxHaystackH == 2
MaxNeedleW == 2
MaxNeedleH == 2
MaxPix == 1

\* ------------------------------------------------------------- rationals
Rat(n, d) == [num |-> n, den |-> d]

None == <<>>
Some(v) == <<v>>
IsSome(o) == Len(o) = 1
Unwrap(o) == o[1]
UnwrapOr(o, d) == IF IsSome(o) THEN o[1] ELSE d

\* options.as_ref().and_then(|o| o.threshold).unwrap_or(0.8)
DefaultThreshold == Rat(4, 5)
\* options.as_ref().and_then(|o| o.scale).unwrap_or(1.0)
DefaultScale == Rat(1, 1)

\* options is Option<MatchOptions>; MatchOptions has two Option<f64> fields
OptThreshold(options) ==
    IF IsSome(options) THEN Unwrap(options).threshold ELSE None
OptScale(options) ==
    IF IsSome(options) THEN Unwrap(options).scale ELSE None

\* variant: the threshold clamped to [0, 1]
ResolveThreshold_Clamped(options) ==
    LET t == UnwrapOr(OptThreshold(options), DefaultThreshold)
    IN  IF t.num < 0 THEN Rat(0, 1) ELSE IF t.num > t.den THEN Rat(1, 1) ELSE t
ResolveThreshold(options) == UnwrapOr(OptThreshold(options), DefaultThreshold)
ResolveScale(options) == UnwrapOr(OptScale(options), DefaultScale)

\* ---------------------------------------------------------------- images
Mat(c, r, d) == [cols |-> c, rows |-> r, data |-> d]
EmptyMat == Mat(0, 0, <<>>)
IsEmpty(m) == m.cols = 0 \/ m.rows = 0
At(m, x, y) == m.data[y * m.cols + x + 1]

\* The encoded form of an image: a two-byte header (width, height) followed
\* by the pixels in row-major order.
Encode(m) == <<m.cols, m.rows>> \o m.data

\* imdecode raises on an empty buffer (its argument check) ...
ImdecodeRaises(buf) == Len(buf) = 0
\* ... and answers an empty matrix for bytes no decoder can parse.
Imdecode(buf) ==
    IF Len(buf) < 2 THEN EmptyMat
    ELSE IF buf[1] = 0 \/ buf[2] = 0 THEN EmptyMat
    ELSE IF Len(buf) # 2 + buf[1] * buf[2] THEN EmptyMat
    ELSE Mat(buf[1], buf[2], SubSeq(buf, 3, Len(buf)))

\* variant: rounding to nearest instead of truncating
MulAsI32_Round(x, s) ==
    IF s.num >= 0 THEN (2 * x * s.num + s.den) \div (2 * s.den)
    ELSE -((2 * x * (-s.num) + s.den) \div (2 * s.den))
\* (x as f64 * scale) as i32 : the cast truncates toward zero
MulAsI32(x, s) ==
    IF s.num >= 0 THEN (x * s.num) \div s.den
    ELSE -((x * (-s.num)) \div s.den)

NewSize(m, s) == [width |-> MulAsI32(m.cols, s), height |-> MulAsI32(m.rows, s)]

\* imgproc::resize with dsize given and fx = fy = 0 raises when dsize is
\* empty (it would take the size from fx, fy, which must be positive).
ResizeRaises(size) == size.width <= 0 \/ size.height <= 0

\* INTER_LINEAR: destination pixel d samples the source at
\* (d + 0.5) * src/dst - 0.5 = ((2d+1)*src - dst) / (2*dst), clamped to the
\* image, and blends the two neighbours by the fractional part.
SrcNum(d, src, dst) == (2 * d + 1) * src - dst
SrcIdx(d, src, dst) ==
    LET i == SrcNum(d, src, dst) \div (2 * dst)
    IN  IF SrcNum(d, src, dst) < 0 THEN 0
        ELSE IF i >= src - 1 THEN src - 1
        ELSE i
\* weight of the right/lower neighbour, in units of 1/(2*dst)
SrcFrac(d, src, dst) ==
    LET i == SrcNum(d, src, dst) \div (2 * dst)
    IN  IF SrcNum(d, src, dst) < 0 \/ i >= src - 1 THEN 0
        ELSE SrcNum(d, src, dst) - i * 2 * dst
Next1(i, src) == IF i + 1 <= src - 1 THEN i + 1 ELSE i

ResizePixel(m, size, dx, dy) ==
    LET sx == SrcIdx(dx, m.cols, size.width)
        sy == SrcIdx(dy, m.rows, size.height)
        a  == SrcFrac(dx, m.cols, size.width)
        b  == SrcFrac(dy, m.rows, size.height)
        ux == 2 * size.width
        uy == 2 * size.height
        s  == (ux - a) * (uy - b) * At(m, sx, sy)
              + a * (uy - b) * At(m, Next1(sx, m.cols), sy)
              + (ux - a) * b * At(m, sx, Next1(sy, m.rows))
              + a * b * At(m, Next1(sx, m.cols), Next1(sy, m.rows))
    IN  (2 * s + ux * uy) \div (2 * ux * uy)

Resize(m, size) ==
    Mat(size.width, size.height,
        [k \in 1..(size.width * size.height) |->
            ResizePixel(m, size, (k - 1) % size.width, (k - 1) \div size.width)])

\* variant: <= for <, a needle as large as the haystack is rejected
NeedleTooLarge_OrEqual(h, n) == h.cols <= n.cols \/ h.rows <= n.rows
\* variant: the height is not compared
NeedleTooLarge_WidthOnly(h, n) == h.cols < n.cols
\* haystack_size.width < needle_size.width || haystack_size.height < needle_size.height
NeedleTooLarge(h, n) == h.cols < n.cols \/ h.rows < n.rows

ResultCols(h, n) == h.cols - n.cols + 1
ResultRows(h, n) == h.rows - n.rows + 1

\* ---------------------------------------------------------------- scores
Score(n, d2) == [num |-> n, den2 |-> d2]
Zero == Score(0, 1)
One == Score(1, 1)
MinusOne == Score(-1, 1)
RatScore(r) == Score(r.num, r.den * r.den)

\* a >= b as real numbers
ScoreGE(a, b) ==
    IF a.num >= 0
    THEN IF b.num >= 0 THEN a.num * a.num * b.den2 >= b.num * b.num * a.den2
         ELSE TRUE
    ELSE IF b.num >= 0 THEN FALSE
         ELSE a.num * a.num * b.den2 <= b.num * b.num * a.den2
ScoreEq(a, b) == ScoreGE(a, b) /\ ScoreGE(b, a)

RECURSIVE SumTo(_, _)
SumTo(a, k) == IF k = 0 THEN 0 ELSE a[k] + SumTo(a, k - 1)
RECURSIVE DotTo(_, _, _)
DotTo(a, b, k) == IF k = 0 THEN 0 ELSE a[k] * b[k] + DotTo(a, b, k - 1)
Sum(a) == SumTo(a, Len(a))
Dot(a, b) == DotTo(a, b, Len(a))

\* n * (sum of squared deviations from the mean) of a pixel list
Variance(a) == Len(a) * Dot(a, a) - Sum(a) * Sum(a)
\* n * (sum of products of deviations) of two pixel lists
Covariance(a, b) == Len(a) * Dot(a, b) - Sum(a) * Sum(b)

\* the haystack pixels under the template anchored at (x, y)
Window(h, n, x, y) ==
    [k \in 1..(n.cols * n.rows) |->
        At(h, x + ((k - 1) % n.cols), y + ((k - 1) \div n.cols))]

\* variant: TM_CCOEFF, the score left unnormalised
Normed_Unnormalised(num, d2) == Score(num, 1)
\* TM_CCOEFF_NORMED at one anchor, for a template of non-zero variance:
\* num / t when |num| < t, +-1 when |num| < 1.125 t, else 0 (t = 0).
Normed(num, d2) ==
    IF num * num < d2 THEN Score(num, d2)
    ELSE IF 64 * num * num < 81 * d2 THEN (IF num > 0 THEN One ELSE MinusOne)
    ELSE Zero

CcoeffNormed(h, n, x, y) ==
    LET w == Window(h, n, x, y)
    IN  Normed(Covariance(n.data, w), Variance(n.data) * Variance(w))

\* imgproc::match_template(.., TM_CCOEFF_NORMED, ..): a template of zero
\* variance makes the whole surface 1.
MatchTemplate(h, n) ==
    LET c == ResultCols(h, n)
        r == ResultRows(h, n)
    IN  Mat(c, r,
            [k \in 1..(c * r) |->
                IF Variance(n.data) = 0 THEN One
                ELSE CcoeffNormed(h, n, (k - 1) % c, (k - 1) \div c)])

\* core::min_max_loc: extremum and the first place, in row-major order,
\* where it is attained.
\* variant: the last place of the maximum instead of the first
MaxIdx_Last(m) ==
    CHOOSE k \in 1..Len(m.data) :
        /\ \A j \in 1..Len(m.data) : ScoreGE(m.data[k], m.data[j])
        /\ \A j \in (k + 1)..Len(m.data) : ~ScoreGE(m.data[j], m.data[k])
MaxIdx(m) ==
    CHOOSE k \in 1..Len(m.data) :
        /\ \A j \in 1..Len(m.data) : ScoreGE(m.data[k], m.data[j])
        /\ \A j \in 1..(k - 1) : ~ScoreGE(m.data[j], m.data[k])
MinIdx(m) ==
    CHOOSE k \in 1..Len(m.data) :
        /\ \A j \in 1..Len(m.data) : ScoreGE(m.data[j], m.data[k])
        /\ \A j \in 1..(k - 1) : ~ScoreGE(m.data[k], m.data[j])
Loc(m, k) == [x |-> (k - 1) % m.cols, y |-> (k - 1) \div m.cols]
MinMaxLoc(m) ==
    [min_val |-> m.data[MinIdx(m)], max_val |-> m.data[MaxIdx(m)],
     min_loc |-> Loc(m, MinIdx(m)), max_loc |-> Loc(m, MaxIdx(m))]

\* variant: > for >=
Matched_Strict(max_val, thr) == ~ScoreGE(RatScore(thr), max_val)
\* let matched = max_val >= threshold
Matched(max_val, thr) == ScoreGE(max_val, RatScore(thr))

\* --------------------------------------------------------------- results
Pending == [kind |-> "pending"]
Ok(f, px, py, c) == [kind |-> "ok", found |-> f, x |-> px, y |-> py, confidence |-> c]
Err(st, why) == [kind |-> "err", status |-> st, reason |-> why]

MatchResult(mm, thr) ==
    Ok(Matched(mm.max_val, thr),
       IF Matched(mm.max_val, thr) THEN Some(mm.max_loc.x) ELSE None,
       IF Matched(mm.max_val, thr) THEN Some(mm.max_loc.y) ELSE None,
       mm.max_val)

\* ---------------------------------------------------------------- inputs
Images(W, H) ==
    UNION {{Mat(w, h, d) : d \in [1..(w * h) -> 0..MaxPix]} : w \in 1..W, h \in 1..H}
\* the empty buffer, a buffer too short for a header, a truncated image
BadBuffers == {<<>>, <<1>>, <<2, 1, 0>>}
HaystackBuffers == BadBuffers \cup {Encode(m) : m \in Images(MaxHaystackW, MaxHaystackH)}
NeedleBuffers == BadBuffers \cup {Encode(m) : m \in Images(MaxNeedleW, MaxNeedleH)}
Thresholds == {None, Some(Rat(4, 5)), Some(Rat(3, 2)), Some(Rat(-1, 1))}
Scales == {None, Some(Rat(1, 1)), Some(Rat(1, 2)), Some(Rat(3, 2)), Some(Rat(2, 1))}
Options ==
    {None} \cup {Some([threshold |-> t, scale |-> s]) : t \in Thresholds, s \in Scales}

\* ----------------------------------------------------------------- state
VARIABLES haystack_buffer, needle_buffer, options, pc, threshold, scale,
          haystack, needle, resized_needle, result, outcome, phase, first

inputs == <<haystack_buffer, needle_buffer, options>>
locals == <<threshold, scale, haystack, needle, resized_needle, result>>
calls == <<phase, first>>
vars == <<inputs, pc, locals, outcome, calls>>

Init ==
    /\ haystack_buffer \in HaystackBuffers
    /\ needle_buffer \in NeedleBuffers
    /\ options \in Options
    /\ pc = "start"
    /\ threshold = Rat(0, 1)
    /\ scale = Rat(0, 1)
    /\ haystack = EmptyMat
    /\ needle = EmptyMat
    /\ resized_needle = EmptyMat
    /\ result = EmptyMat
    /\ outcome = Pending
    /\ phase = 1
    /\ first = Pending

Return(r) == pc' = "done" /\ outcome' = r

\* variant: an absent field keeps the value of the call before
ResolveOptions_Sticky ==
    /\ pc = "start"
    /\ threshold' = UnwrapOr(OptThreshold(options), threshold)
    /\ scale' = UnwrapOr(OptScale(options), scale)
    /\ pc' = "options"
    /\ UNCHANGED <<inputs, haystack, needle, resized_needle, result, outcome, calls>>

\* lines 34-35
ResolveOptions ==
    /\ pc = "start"
    /\ threshold' = ResolveThreshold(options)
    /\ scale' = ResolveScale(options)
    /\ pc' = "options"
    /\ UNCHANGED <<inputs, haystack, needle, resized_needle, result, outcome, calls>>

\* lines 43-44
DecodeHaystack ==
    /\ pc = "options"
    /\ IF ImdecodeRaises(haystack_buffer)
       THEN Return(Err("GenericFailure", "decode_haystack")) /\ UNCHANGED haystack
       ELSE haystack' = Imdecode(haystack_buffer) /\ pc' = "haystack" /\ UNCHANGED outcome
    /\ UNCHANGED <<inputs, threshold, scale, needle, resized_needle, result, calls>>

\* lines 46-47
DecodeNeedle ==
    /\ pc = "haystack"
    /\ IF ImdecodeRaises(needle_buffer)
       THEN Return(Err("GenericFailure", "decode_needle")) /\ UNCHANGED needle
       ELSE needle' = Imdecode(needle_buffer) /\ pc' = "decoded" /\ UNCHANGED outcome
    /\ UNCHANGED <<inputs, threshold, scale, haystack, resized_needle, result, calls>>

\* variant: the needle is not checked
CheckEmpty_HaystackOnly ==
    /\ pc = "decoded"
    /\ IF IsEmpty(haystack)
       THEN Return(Err("InvalidArg", "empty_image"))
       ELSE pc' = "nonempty" /\ UNCHANGED outcome
    /\ UNCHANGED <<inputs, locals, calls>>

\* lines 49-51
CheckEmpty ==
    /\ pc = "decoded"
    /\ IF IsEmpty(haystack) \/ IsEmpty(needle)
       THEN Return(Err("InvalidArg", "empty_image"))
       ELSE pc' = "nonempty" /\ UNCHANGED outcome
    /\ UNCHANGED <<inputs, locals, calls>>

\* lines 57-75
ResizeNeedle ==
    /\ pc = "nonempty"
    /\ IF ResizeRaises(NewSize(needle, scale))
       THEN Return(Err("GenericFailure", "resize")) /\ UNCHANGED resized_needle
       ELSE /\ resized_needle' = Resize(needle, NewSize(needle, scale))
            /\ pc' = "resized"
            /\ UNCHANGED outcome
    /\ UNCHANGED <<inputs, threshold, scale, haystack, needle, result, calls>>

\* variant: the size mismatch reported as a generic failure
CheckFit_GenericFailure ==
    /\ pc = "resized"
    /\ IF NeedleTooLarge(haystack, resized_needle)
       THEN Return(Err("GenericFailure", "needle_too_large"))
       ELSE pc' = "fits" /\ UNCHANGED outcome
    /\ UNCHANGED <<inputs, locals, calls>>

\* lines 77-82
CheckFit ==
    /\ pc = "resized"
    /\ IF NeedleTooLarge(haystack, resized_needle)
       THEN Return(Err("InvalidArg", "needle_too_large"))
       ELSE pc' = "fits" /\ UNCHANGED outcome
    /\ UNCHANGED <<inputs, locals, calls>>

\* lines 84-102
Correlate ==
    /\ pc = "fits"
    /\ result' = MatchTemplate(haystack, resized_needle)
    /\ pc' = "matched"
    /\ UNCHANGED <<inputs, threshold, scale, haystack, needle, resized_needle,
                   outcome, calls>>

\* lines 104-126
LocateAndReturn ==
    /\ pc = "matched"
    /\ Return(MatchResult(MinMaxLoc(result), threshold))
    /\ UNCHANGED <<inputs, locals, calls>>

Next ==
    \/ ResolveOptions
    \/ DecodeHaystack
    \/ DecodeNeedle
    \/ CheckEmpty
    \/ ResizeNeedle
    \/ CheckFit
    \/ Correlate
    \/ LocateAndReturn

Spec == Init /\ [][Next]_vars

\* ------------------------------------------------ repeated calls (C9)
\* The variables of a call stay as the call left them: a later call starts
\* on whatever the earlier ones wrote.
OtherOptions ==
    {None, Some([threshold |-> Some(Rat(-1, 1)), scale |-> Some(Rat(1, 2))])}

\* the same call once more, straight after the first
CallAgain ==
    /\ pc = "done" /\ phase = 1
    /\ first' = [args |-> inputs, outcome |-> outcome]
    /\ phase' = 3
    /\ pc' = "start"
    /\ outcome' = Pending
    /\ UNCHANGED <<inputs, locals>>

\* another call, with other options, in between
CallOther ==
    /\ pc = "done" /\ phase = 1
    /\ first' = [args |-> inputs, outcome |-> outcome]
    /\ phase' = 2
    /\ \E o \in OtherOptions : o # options /\ options' = o
    /\ pc' = "start"
    /\ outcome' = Pending
    /\ UNCHANGED <<haystack_buffer, needle_buffer, locals>>

\* the first call again, after the other one
CallBack ==
    /\ pc = "done" /\ phase = 2
    /\ phase' = 3
    /\ options' = first.args[3]
    /\ pc' = "start"
    /\ outcome' = Pending
    /\ UNCHANGED <<haystack_buffer, needle_buffer, locals, first>>

\* repeated calls are explored on haystacks no larger than the largest needle
InitTwice == Init /\ haystack_buffer \in NeedleBuffers

NextTwice ==
    \/ ResolveOptions
    \/ DecodeHaystack
    \/ DecodeNeedle
    \/ CheckEmpty
    \/ ResizeNeedle
    \/ CheckFit
    \/ Correlate
    \/ LocateAndReturn
    \/ CallAgain
    \/ CallOther
    \/ CallBack

SpecTwice == InitTwice /\ [][NextTwice]_vars

\* ================================================================ claims
Done == pc = "done"
Succeeded == pc = "done" /\ outcome.kind = "ok"
Failed == pc = "done" /\ outcome.kind = "err"

\* a buffer that is empty, unparsable or decodes to an empty image
BadInput == haystack_buffer \in BadBuffers \/ needle_buffer \in BadBuffers
DecoderRaised == Len(haystack_buffer) = 0 \/ Len(needle_buffer) = 0
\* the threshold and scale the caller's options stand for
GivenThreshold ==
    IF options = None THEN Rat(4, 5)
    ELSE IF Unwrap(options).threshold = None THEN Rat(4, 5)
    ELSE Unwrap(Unwrap(options).threshold)
GivenScale ==
    IF options = None THEN Rat(1, 1)
    ELSE IF Unwrap(options).scale = None THEN Rat(1, 1)
    ELSE Unwrap(Unwrap(options).scale)

\* C1: a successful call reports the surface's global maximum as confidence,
\* found exactly when that maximum is >= threshold, x and y at a cell holding
\* the maximum when found, and no x, y when not found.
C1_FoundIffMaxReachesThreshold ==
    Succeeded =>
        /\ \E k \in 1..Len(result.data) : outcome.confidence = result.data[k]
        /\ \A k \in 1..Len(result.data) : ScoreGE(outcome.confidence, result.data[k])
        /\ outcome.found = ScoreGE(outcome.confidence, RatScore(GivenThreshold))
        /\ outcome.found =>
              /\ IsSome(outcome.x) /\ IsSome(outcome.y)
              /\ Unwrap(outcome.x) \in 0..(result.cols - 1)
              /\ Unwrap(outcome.y) \in 0..(result.rows - 1)
              /\ At(result, Unwrap(outcome.x), Unwrap(outcome.y)) = outcome.confidence
        /\ ~outcome.found => outcome.x = None /\ outcome.y = None

\* a match away from the origin, in a surface that also holds lower scores
C1_Witness ==
    /\ Succeeded /\ outcome.found
    /\ outcome.x = Some(1) /\ outcome.y = Some(1)
    /\ ~ScoreGE(result.data[1], outcome.confidence)

\* C2: with two images that decode non-empty, InvalidArg is raised exactly
\* when the scaled needle is wider or taller than the haystack; a doubled
\* needle that fits, and a needle as large as the haystack, are accepted.
ScaledTooLarge ==
    \/ resized_needle.cols > haystack.cols
    \/ resized_needle.rows > haystack.rows
C2_InvalidArgIffTooLarge ==
    (Done /\ ~BadInput) =>
        /\ (outcome.kind = "err" /\ outcome.status = "InvalidArg") <=> ScaledTooLarge
        /\ (/\ GivenScale = Rat(2, 1)
            /\ 2 * needle.cols <= haystack.cols
            /\ 2 * needle.rows <= haystack.rows) => outcome.kind = "ok"
        /\ (/\ ~IsEmpty(resized_needle)
            /\ resized_needle.cols = haystack.cols
            /\ resized_needle.rows = haystack.rows) => outcome.kind = "ok"

\* a needle doubled to exactly the haystack's size is matched
C2_Witness ==
    /\ Succeeded /\ GivenScale = Rat(2, 1)
    /\ resized_needle.cols = haystack.cols /\ resized_needle.rows = haystack.rows

DecodeReasons == {"decode_haystack", "decode_needle", "empty_image"}
SizeMismatch == ~BadInput /\ ~IsEmpty(resized_needle) /\ ScaledTooLarge
Resized == pc \in {"resized", "fits", "matched"} \/ Succeeded
\* round to nearest, halves away from zero (positive scale)
RoundMul(x, s) == (2 * x * s.num + s.den) \div (2 * s.den)

\* C5 (as claimed): the needle is resized to round(width * scale) by
\* round(height * scale).
C5_RoundsToNearest ==
    Resized =>
        /\ resized_needle.cols = RoundMul(needle.cols, GivenScale)
        /\ resized_needle.rows = RoundMul(needle.rows, GivenScale)

\* C5 (amended): the needle is resized to floor(width * scale) by
\* floor(height * scale) (truncation), and these are the dimensions of the
\* fit check and of the correlation surface.
C5_Truncates ==
    Resized =>
        /\ resized_needle.cols * GivenScale.den <= needle.cols * GivenScale.num
        /\ needle.cols * GivenScale.num < (resized_needle.cols + 1) * GivenScale.den
        /\ resized_needle.rows * GivenScale.den <= needle.rows * GivenScale.num
        /\ needle.rows * GivenScale.num < (resized_needle.rows + 1) * GivenScale.den
        /\ pc \in {"fits", "matched"} =>
              /\ resized_needle.cols <= haystack.cols
              /\ resized_needle.rows <= haystack.rows
        /\ pc = "matched" =>
              /\ result.cols = haystack.cols - resized_needle.cols + 1
              /\ result.rows = haystack.rows - resized_needle.rows + 1

\* width 1 at scale 1.5 stays 1 (round would say 2)
C5_Witness ==
    /\ pc = "matched" /\ GivenScale = Rat(3, 2)
    /\ needle.cols = 1 /\ resized_needle.cols = 1 /\ result.cols = haystack.cols

\* the sub-region of h of the given size at (ox, oy)
Crop(h, ox, oy, w, ht) ==
    [k \in 1..(w * ht) |-> At(h, ox + ((k - 1) % w), oy + ((k - 1) \div w))]
\* the places of the haystack the needle is a verbatim copy of
Origins ==
    {o \in (0..(haystack.cols - needle.cols)) \X (0..(haystack.rows - needle.rows)) :
        \A k \in 1..Len(needle.data) :
            Crop(haystack, o[1], o[2], needle.cols, needle.rows)[k] = needle.data[k]}
\* a finished call with the default scale and threshold on a needle copied
\* from the haystack
VerbatimCall ==
    /\ Done /\ ~BadInput
    /\ GivenScale = Rat(1, 1) /\ GivenThreshold = Rat(4, 5)
    /\ Origins # {}
PerfectCells == {k \in 1..Len(result.data) : ScoreEq(result.data[k], One)}

C7_DefaultsAndNoClamping ==
    /\ pc # "start" => threshold = GivenThreshold /\ scale = GivenScale
    /\ Succeeded => outcome.found = ScoreGE(outcome.confidence, RatScore(GivenThreshold))
    /\ (Succeeded /\ GivenThreshold = Rat(3, 2)) => ~outcome.found
    /\ (Succeeded /\ GivenThreshold = Rat(-1, 1)) => outcome.found

\* no options object at all: the defaults decide, and find the needle
C7_Witness ==
    /\ Succeeded /\ options = None /\ outcome.found
    /\ threshold = Rat(4, 5) /\ scale = Rat(1, 1)

\* C8: the confidence of every result lies in [-1, 1].
C8_ConfidenceInRange ==
    Succeeded =>
        /\ ScoreGE(One, outcome.confidence)
        /\ ScoreGE(outcome.confidence, MinusOne)

\* a best score strictly between -1 and 0
C8_Witness ==
    /\ Succeeded /\ outcome.confidence.num < 0
    /\ ~ScoreGE(MinusOne, outcome.confidence)

\* C9: a call repeated with the same buffers and options, straight away or
\* after another call, ends as the first one did.
C9_SameOutcome ==
    (phase = 3 /\ Done) => (first.args = inputs /\ outcome = first.outcome)

\* the repeated call has found the needle again
C9_Witness ==
    /\ phase = 3 /\ Succeeded /\ outcome.found /\ first.outcome = outcome
    /\ IsSome(options)

\* C10: the surface being computed has at least one column and one row, and
\* a reported match region lies inside the haystack.
C10_SurfaceAndRegionInside ==
    /\ pc = "fits" =>
          /\ haystack.cols - resized_needle.cols + 1 >= 1
          /\ haystack.rows - resized_needle.rows + 1 >= 1
    /\ pc = "matched" =>
          /\ result.cols >= 1 /\ result.rows >= 1
          /\ Len(result.data) = result.cols * result.rows
    /\ (Succeeded /\ outcome.found) =>
          /\ 0 <= Unwrap(outcome.x)
          /\ Unwrap(outcome.x) + resized_needle.cols <= haystack.cols
          /\ 0 <= Unwrap(outcome.y)
          /\ Unwrap(outcome.y) + resized_needle.rows <= haystack.rows

\* a match in the last column and last row of the surface
C10_Witness ==
    /\ Succeeded /\ outcome.found
    /\ Unwrap(outcome.x) > 0 /\ Unwrap(outcome.y) > 0
    /\ Unwrap(outcome.x) + resized_needle.cols = haystack.cols
    /\ Unwrap(outcome.y) + resized_needle.rows = haystack.rows
====
